---- MODULE Spec2Model ----
\* iXmanager integration: polling coordinator + optimistic writes of the
\* switch and number entities (custom_components/ixmanager).
EXTENDS Integers, Sequences, FiniteSets, TLC

\* ---------------------------------------------------------------- bounds
\* Writes accepted and polls started in one run.
MaxWrites == 2
MaxPolls == 1
\* Single-property refreshes in flight at one time.
MaxSingles == 1
\* Writes accepted in one run next to single-property refreshes.
SingleWrites == 1
\* Writes accepted in one run of the specification with fairness.
LiveWrites == 1
\* Writes accepted in one run of the specification with reads.
ReadWrites == 1

\* ---------------------------------------------------------------- const.py
PROPERTY_CHARGING_ENABLE == "chargingEnable"
PROPERTY_MAXIMUM_CURRENT == "maximumCurrent"
PROPERTY_CURRENT_CHARGING_POWER == "currentChargingPower"
PROPERTY_TOTAL_ENERGY == "totalEnergy"
PROPERTY_SINGLE_PHASE == "singlePhase"
PROPERTY_SIGNAL == "signal"
PROPERTY_CHARGING_STATUS == "chargingStatus"
PROPERTY_TARGET_CURRENT == "targetCurrent"
PROPERTY_CHARGING_CURRENT == "chargingCurrent"
PROPERTY_CHARGING_CURRENT_L2 == "chargingCurrentL2"
PROPERTY_CHARGING_CURRENT_L3 == "chargingCurrentL3"

CABLE_TYPE_16A == "16A"
CABLE_TYPE_32A == "32A"
DEFAULT_CABLE_TYPE == CABLE_TYPE_16A

\* CABLE_TYPES[tag]["max_current"]; the domain is the set of known tags.
CABLE_TYPES == [c \in {CABLE_TYPE_16A, CABLE_TYPE_32A} |->
                  IF c = CABLE_TYPE_16A THEN 16 ELSE 32]

\* Delays of the background refresh, in tenths of a second.
SWITCH_REFRESH_DELAY == 1
NUMBER_REFRESH_DELAY == 5

\* properties_to_fetch of _async_update_data: the full key set of one poll.
properties_to_fetch ==
    { PROPERTY_CHARGING_ENABLE, PROPERTY_MAXIMUM_CURRENT,
      PROPERTY_TARGET_CURRENT, PROPERTY_CURRENT_CHARGING_POWER,
      PROPERTY_CHARGING_CURRENT, PROPERTY_CHARGING_CURRENT_L2,
      PROPERTY_CHARGING_CURRENT_L3, PROPERTY_TOTAL_ENERGY,
      PROPERTY_SINGLE_PHASE, PROPERTY_SIGNAL, PROPERTY_CHARGING_STATUS }

\* The writable entities, each named by the property key it writes.
Switches == {PROPERTY_CHARGING_ENABLE, PROPERTY_SINGLE_PHASE}
Numbers == {PROPERTY_MAXIMUM_CURRENT}
Points == Switches \cup Numbers

\* ---------------------------------------------------------------- values
\* A JSON value of the API: bool, number, string, null, bare or wrapped in
\* {"value": V} (env).  t = "none" is Python's None as a read result and
\* "missing" stands for a property the remote device does not report.
BoolV(x) == [env |-> FALSE, t |-> "bool", b |-> x, n |-> 0, s |-> ""]
NumV(x) == [env |-> FALSE, t |-> "num", b |-> FALSE, n |-> x, s |-> ""]
StrV(x) == [env |-> FALSE, t |-> "str", b |-> FALSE, n |-> 0, s |-> x]
NullV == [env |-> FALSE, t |-> "null", b |-> FALSE, n |-> 0, s |-> ""]
NoneR == [env |-> FALSE, t |-> "none", b |-> FALSE, n |-> 0, s |-> ""]
Missing == [env |-> FALSE, t |-> "missing", b |-> FALSE, n |-> 0, s |-> ""]
Envelope(v) == [v EXCEPT !.env = TRUE]

\* A JSON number with a fractional part: n counts thousandths (15.7 is
\* DecV(15700)).  Dec normalises a float: a whole number compares equal to
\* the int of the same value, as 15.0 == 15 does in Python.
DecV(m) == [env |-> FALSE, t |-> "dec", b |-> FALSE, n |-> m, s |-> ""]
Dec(m) == IF m % 1000 = 0 THEN NumV(m \div 1000) ELSE DecV(m)

EmptyMap == [k \in {} |-> NullV]
NoData == [none |-> TRUE, map |-> EmptyMap]
Dict(m) == [none |-> FALSE, map |-> m]

\* Python truthiness of coordinator.data: not None and not an empty dict.
Truthy(d) == ~d.none /\ DOMAIN d.map # {}

\* d[k] = v on a dict.
DictSet(m, k, v) == [x \in DOMAIN m \cup {k} |-> IF x = k THEN v ELSE m[x]]

\* ---------------------------------------------------------------- inputs
\* Values a caller asks a number entity to set (amperes).
NumInputs == {10, 40}
\* Cable tag stored in the config entry.
CableInputs == {CABLE_TYPE_16A}
\* Wire format of the endpoint: TRUE answers {"value": V}, so that data holds
\* envelopes from polls next to the bare values of optimistic writes.
WireFormats == {TRUE}

\* Device states at start: a device that reports no property yet, and a
\* device that reports its writable properties and its signal strength.
\* A key outside the domain is a property the device does not report.
RemoteOf(ce, sp, mc, sig) ==
    [k \in Points \cup {PROPERTY_SIGNAL} |->
        IF k = PROPERTY_CHARGING_ENABLE THEN ce
        ELSE IF k = PROPERTY_SINGLE_PHASE THEN sp
        ELSE IF k = PROPERTY_MAXIMUM_CURRENT THEN mc
        ELSE sig]
InitRemotes ==
    { EmptyMap,
      RemoteOf(BoolV(FALSE), BoolV(FALSE), NumV(10), NumV(70)) }

VARIABLES
    phase,                  \* "no_entry", then async_setup_entry: "validate", "first_refresh", "running", "failed"
    data,                   \* coordinator.data
    last_update_success,    \* coordinator.last_update_success
    api_call_in_progress,   \* entity._api_call_in_progress, per point
    cable_type,             \* number entity's _cable_type
    entry_cable,            \* cable type stored in the config entry's data
    pc,                     \* position of each point's write coroutine
    wval,                   \* value the point's write in progress sends
    opt,                    \* the write in progress put its value in data, the point was available, and no refresh finished since
    outstanding,            \* PATCH requests sent and not yet returned, per point
    tasks,                  \* refreshes in flight: scheduled poll, delayed refresh, rollback refresh
    remote,                 \* property values held by the device's cloud endpoint
    enveloped,              \* the endpoint answers {"value": V} instead of V
    nwrites,                \* writes accepted so far
    npolls,                 \* polls started so far
    ev                      \* the step that was taken last

vars == <<phase, data, last_update_success, api_call_in_progress, cable_type, entry_cable,
          pc, wval, opt, outstanding, tasks, remote, enveloped, nwrites, npolls, ev>>

\* ev: op names the step, p the point (or "-"), ok its success, fresh whether
\* the response it applied still showed the device's value of p.
Event(op, p, ok, fresh) == [op |-> op, p |-> p, ok |-> ok, fresh |-> fresh]

\* ---------------------------------------------------------------- api_client.py
\* What one HTTP exchange can come to: a status, or a transport failure, or
\* an exception aiohttp does not derive from ClientError.
HttpOutcomes == {"200", "204", "401", "404", "500", "timeout", "client_error", "unexpected"}

\* Faulty variant: every 2xx status of the GET is taken for a body to return.
async_get_properties_Any2xx(o) ==
    IF o \in {"200", "201", "204"} THEN "data"
    ELSE IF o \in {"timeout", "client_error"} THEN "IXManagerConnectionError"
    ELSE IF o = "unexpected" THEN "Exception"
    ELSE "IXManagerError"

\* async_get_properties: the value returned ("data") or the exception raised.
async_get_properties(o) ==
    IF o = "200" THEN "data"
    ELSE IF o \in {"timeout", "client_error"} THEN "IXManagerConnectionError"
    ELSE IF o = "unexpected" THEN "Exception"
    ELSE "IXManagerError"

\* async_set_property: "True" or the exception raised.
async_set_property(o) ==
    IF o \in {"200", "204"} THEN "True"
    ELSE IF o \in {"timeout", "client_error"} THEN "IXManagerConnectionError"
    ELSE IF o = "unexpected" THEN "Exception"
    ELSE "IXManagerError"

\* Faulty variant: IXManagerConnectionError is a class of its own, which
\* "except IXManagerError" does not catch.
IsIXManagerError_Base(e) == e = "IXManagerError"

\* exceptions.py: IXManagerConnectionError derives from IXManagerError.
IsIXManagerError(e) == e \in {"IXManagerError", "IXManagerConnectionError"}

\* The JSON object the endpoint returns for GET properties?keys=...
Response(keys) ==
    [k \in keys \cap DOMAIN remote |->
        IF enveloped THEN Envelope(remote[k]) ELSE remote[k]]

\* The value the device holds for k.
RemoteValue(k) == IF k \in DOMAIN remote THEN remote[k] ELSE Missing

\* ---------------------------------------------------------------- reads
\* str(value).lower() on the strings the model uses.
Lower(s) == IF s \in {"True", "TRUE", "true"} THEN "true" ELSE s

\* float(str): the numeric strings of the model parse, the others raise.
ParsesAsFloat(s) == s \in {"16", "7"}
FloatOfStr(s) == IF s = "16" THEN 16 ELSE 7

\* property_data["value"] if property_data is a dict holding "value".
Unwrap(v) == [v EXCEPT !.env = FALSE]

\* Faulty variant: "and self.coordinator.data[key]" instead of "... is not None".
available_truthy(lus, d, k) ==
    /\ lus
    /\ ~d.none
    /\ k \in DOMAIN d.map
    /\ ~(d.map[k].t = "null" /\ ~d.map[k].env)
    /\ (d.map[k].env \/ d.map[k].t # "bool" \/ d.map[k].b)

\* Faulty variant: no "is not None" test of the entry.
available_present(lus, d, k) ==
    /\ lus
    /\ ~d.none
    /\ k \in DOMAIN d.map

\* available of the sensor, switch and number entities (the same expression
\* in the three base classes).
available(lus, d, k) ==
    /\ lus
    /\ ~d.none
    /\ k \in DOMAIN d.map
    /\ ~(d.map[k].t = "null" /\ ~d.map[k].env)

\* IXManagerSwitchBase.is_on
is_on(lus, d, k) ==
    IF ~available(lus, d, k) THEN NoneR
    ELSE LET value == Unwrap(d.map[k]) IN
         IF value.t = "bool" THEN BoolV(value.b)
         ELSE BoolV(value.t = "str" /\ Lower(value.s) = "true")

\* IXManagerNumberBase.native_value
native_value(lus, d, k) ==
    IF ~available(lus, d, k) THEN NoneR
    ELSE LET value == Unwrap(d.map[k]) IN
         IF value.t = "num" THEN NumV(value.n)
         ELSE IF value.t = "dec" THEN DecV(value.n)
         ELSE IF value.t = "bool" THEN NumV(IF value.b THEN 1 ELSE 0)
         ELSE IF value.t = "str" /\ ParsesAsFloat(value.s) THEN NumV(FloatOfStr(value.s))
         ELSE NoneR

\* What the point p shows to the host right now.
Read(p) == IF p \in Switches THEN is_on(last_update_success, data, p)
           ELSE native_value(last_update_success, data, p)

\* ---------------------------------------------------------------- tasks
Task(kind, p, stage) ==
    [kind |-> kind, p |-> p, stage |-> stage, slept |-> 0,
     keys |-> properties_to_fetch, res |-> "", resp |-> EmptyMap,
     v |-> NoneR, opt |-> FALSE, stale |-> FALSE, sup |-> FALSE]

RemoveAt(s, i) == [j \in 1..(Len(s) - 1) |-> IF j < i THEN s[j] ELSE s[j + 1]]

\* Faulty variant: the number entity sleeps as briefly as the switches.
RefreshDelay_Same(p) == SWITCH_REFRESH_DELAY

\* asyncio.sleep(...) of _async_delayed_refresh, in tenths of a second.
RefreshDelay(p) == IF p \in Switches THEN SWITCH_REFRESH_DELAY ELSE NUMBER_REFRESH_DELAY


\* ---------------------------------------------------------------- setup
Init ==
    /\ phase = "validate"
    /\ data = NoData
    /\ last_update_success = TRUE
    /\ api_call_in_progress = [p \in Points |-> FALSE]
    /\ cable_type \in CableInputs
    /\ entry_cable = cable_type
    /\ pc = [p \in Points |-> "idle"]
    /\ wval = [p \in Points |-> NoneR]
    /\ opt = [p \in Points |-> FALSE]
    /\ outstanding = [p \in Points |-> 0]
    /\ tasks = <<>>
    /\ remote \in InitRemotes
    /\ enveloped \in WireFormats
    /\ nwrites = 0
    /\ npolls = 0
    /\ ev = Event("init", "-", TRUE, TRUE)

\* async_validate_connection: True, or the exception of the GET re-raised.
async_validate_connection(o) ==
    IF async_get_properties(o) = "data" THEN "True" ELSE async_get_properties(o)

\* What async_setup_entry does with the outcome of the validation: it goes
\* on, raises ConfigEntryNotReady, returns False, or lets the exception out.
SetupResult(res) ==
    IF res = "True" THEN "continue"
    ELSE IF res = "IXManagerConnectionError" THEN "ConfigEntryNotReady"
    ELSE IF IsIXManagerError(res) THEN "False"
    ELSE res

\* async_config_entry_first_refresh raises ConfigEntryNotReady when the
\* refresh fails; otherwise the platforms are set up and True is returned.
FirstRefreshResult(res) == IF res = "data" THEN "True" ELSE "ConfigEntryNotReady"

\* async_setup_entry, first half: async_validate_connection.
setup_validate(o) ==
    /\ phase = "validate"
    /\ phase' = IF async_get_properties(o) = "data" THEN "first_refresh" ELSE "failed"
    /\ ev' = [op |-> "validate", p |-> "-", ok |-> async_get_properties(o) = "data",
              fresh |-> TRUE, res |-> SetupResult(async_validate_connection(o))]
    /\ UNCHANGED <<data, last_update_success, api_call_in_progress, cable_type, entry_cable,
                   pc, wval, opt, outstanding, tasks, remote, enveloped, nwrites, npolls>>

\* Faulty variant: a plain refresh in place of the first refresh, so that the
\* platforms are set up whatever the refresh came to.
setup_first_refresh_Lenient(o) ==
    /\ phase = "first_refresh"
    /\ IF async_get_properties(o) = "data"
       THEN /\ data' = Dict(Response(properties_to_fetch))
            /\ last_update_success' = TRUE
       ELSE /\ last_update_success' = FALSE
            /\ UNCHANGED data
    /\ phase' = "running"
    /\ ev' = [op |-> "first_refresh", p |-> "-", ok |-> async_get_properties(o) = "data",
              fresh |-> TRUE, res |-> "True"]
    /\ UNCHANGED <<api_call_in_progress, cable_type, entry_cable, pc, wval, opt,
                   outstanding, tasks, remote, enveloped, nwrites, npolls>>

\* async_setup_entry, second half: async_config_entry_first_refresh, then
\* the platforms create the entities.
setup_first_refresh(o) ==
    /\ phase = "first_refresh"
    /\ IF async_get_properties(o) = "data"
       THEN /\ data' = Dict(Response(properties_to_fetch))
            /\ last_update_success' = TRUE
            /\ phase' = "running"
       ELSE /\ last_update_success' = FALSE
            /\ phase' = "failed"
            /\ UNCHANGED data
    /\ ev' = [op |-> "first_refresh", p |-> "-", ok |-> async_get_properties(o) = "data",
              fresh |-> TRUE, res |-> FirstRefreshResult(async_get_properties(o))]
    /\ UNCHANGED <<api_call_in_progress, cable_type, entry_cable, pc, wval, opt,
                   outstanding, tasks, remote, enveloped, nwrites, npolls>>

\* ---------------------------------------------------------------- writes
\* Faulty variant: the guard is missing.
InProgress_Never(p) == FALSE

\* Faulty variant: one flag for all entities.
InProgress_Global(p) == \E q \in Points : api_call_in_progress[q]

\* "if self._api_call_in_progress: return"
InProgress(p) == api_call_in_progress[p]

\* Faulty variant: the early return sits inside the try, so finally clears the flag.
FlagAfterDrop_Cleared(p) == [api_call_in_progress EXCEPT ![p] = FALSE]

\* The flag as the early return leaves it.
FlagAfterDrop(p) == api_call_in_progress

\* Faulty variant: no optimistic update.
OptimisticUpdate_Skip(d, k, v) == d

\* Faulty variant: the optimistic update stores a new dict that holds the
\* written key only.
OptimisticUpdate_Replace(d, k, v) ==
    IF Truthy(d) THEN Dict([x \in {k} |-> v]) ELSE d

\* "if self.coordinator.data: self.coordinator.data[key] = value"
OptimisticUpdate(d, k, v) == IF Truthy(d) THEN Dict(DictSet(d.map, k, v)) ELSE d

\* max_current lookup and clamp of async_set_native_value.
MaxCurrent(ct) == IF ct \in DOMAIN CABLE_TYPES THEN CABLE_TYPES[ct]
                  ELSE CABLE_TYPES[DEFAULT_CABLE_TYPE]
\* Faulty variant: the request is sent as asked, whatever the cable allows.
Clamp_None(ct, value) == value
Clamp(ct, value) == IF value > MaxCurrent(ct) THEN MaxCurrent(ct) ELSE value
\* _attr_native_min_value: advertised to the host, not enforced by the write.
MIN_CHARGING_CURRENT == 6

\* A request that finds the flag set: logged and dropped.
WriteDropped(p) ==
    /\ api_call_in_progress' = FlagAfterDrop(p)
    /\ ev' = Event("write_dropped", p, TRUE, TRUE)
    /\ UNCHANGED <<phase, data, last_update_success, cable_type, entry_cable, pc, wval,
                   opt, outstanding, tasks, remote, enveloped, nwrites, npolls>>

\* From the flag check to the await of async_set_property: set the flag,
\* update coordinator.data, async_write_ha_state, send the PATCH.
WriteAccepted(p, v) ==
    /\ nwrites < MaxWrites
    /\ nwrites' = nwrites + 1
    /\ api_call_in_progress' = [api_call_in_progress EXCEPT ![p] = TRUE]
    /\ data' = OptimisticUpdate(data, p, v)
    /\ outstanding' = [outstanding EXCEPT ![p] = @ + 1]
    /\ pc' = [pc EXCEPT ![p] = "patch"]
    /\ wval' = [wval EXCEPT ![p] = v]
    /\ opt' = [opt EXCEPT ![p] = Truthy(data) /\ last_update_success]
    /\ tasks' = [i \in 1..Len(tasks) |->
                   IF tasks[i].kind = "delayed" /\ tasks[i].p = p
                   THEN [tasks[i] EXCEPT !.sup = TRUE] ELSE tasks[i]]
    /\ ev' = Event("write_accepted", p, Truthy(data), TRUE)
    /\ UNCHANGED <<phase, last_update_success, cable_type, entry_cable, remote, enveloped, npolls>>

\* IXManagerSwitchBase._async_set_state up to its first await.
async_set_state(p, state) ==
    /\ phase = "running"
    /\ p \in Switches
    /\ IF InProgress(p) THEN WriteDropped(p) ELSE WriteAccepted(p, BoolV(state))

\* IXManagerNumberBase.async_set_native_value up to its first await.
async_set_native_value(p, value) ==
    /\ phase = "running"
    /\ p \in Numbers
    /\ IF InProgress(p) THEN WriteDropped(p)
       ELSE WriteAccepted(p, NumV(Clamp(cable_type, value)))

\* The task created by hass.async_create_task(self._async_delayed_refresh()).
DelayedTask(p) == [Task("delayed", p, "sleep") EXCEPT !.v = wval[p], !.opt = opt[p]]

\* Faulty variant: the except clause schedules the delayed refresh instead.
RollbackTask_Delayed(p) == Task("delayed", p, "sleep")

\* The refresh awaited in "except IXManagerError".
RollbackTask(p) == Task("rollback", p, "get")

\* Faulty variant: no finally clause.
FinallyFlag_Missing(p) == api_call_in_progress

\* "finally: self._api_call_in_progress = False"
FinallyFlag(p) == [api_call_in_progress EXCEPT ![p] = FALSE]

\* A response already produced for a refresh of point k no longer shows the
\* value the device holds for k.
MarkStale(ts, k) ==
    [i \in 1..Len(ts) |-> IF ts[i].stage = "resp" /\ ts[i].p = k
                          THEN [ts[i] EXCEPT !.stale = TRUE] ELSE ts[i]]

\* async_set_property returned True: the device holds the value; schedule
\* the delayed refresh; finally clears the flag.
patch_ok(p, o) ==
    /\ pc[p] = "patch"
    /\ async_set_property(o) = "True"
    /\ remote' = DictSet(remote, p, wval[p])
    /\ outstanding' = [outstanding EXCEPT ![p] = @ - 1]
    /\ tasks' = Append(MarkStale(tasks, p), DelayedTask(p))
    /\ api_call_in_progress' = FinallyFlag(p)
    /\ pc' = [pc EXCEPT ![p] = "idle"]
    /\ wval' = [wval EXCEPT ![p] = NoneR]
    /\ opt' = [opt EXCEPT ![p] = FALSE]
    /\ ev' = Event("patch_ok", p, TRUE, TRUE)
    /\ UNCHANGED <<phase, data, last_update_success, cable_type, entry_cable, enveloped, nwrites, npolls>>

\* Faulty variant: the except clause sends the PATCH once more.
patch_failed_Retry(p, o) ==
    /\ pc[p] = "patch"
    /\ IsIXManagerError(async_set_property(o))
    /\ ev' = Event("patch_failed", p, FALSE, TRUE)
    /\ UNCHANGED <<phase, data, last_update_success, api_call_in_progress,
                   cable_type, entry_cable, pc, wval, opt, outstanding, tasks,
                   remote, enveloped, nwrites, npolls>>

\* Faulty variant: the flag is cleared before the refresh of the except
\* clause is awaited.
patch_failed_ClearFlag(p, o) ==
    /\ pc[p] = "patch"
    /\ IsIXManagerError(async_set_property(o))
    /\ outstanding' = [outstanding EXCEPT ![p] = @ - 1]
    /\ tasks' = Append(tasks, RollbackTask(p))
    /\ pc' = [pc EXCEPT ![p] = "rollback"]
    /\ api_call_in_progress' = FinallyFlag(p)
    /\ ev' = Event("patch_failed", p, FALSE, TRUE)
    /\ UNCHANGED <<phase, data, last_update_success,
                   cable_type, entry_cable, wval, opt, remote, enveloped, nwrites, npolls>>

\* async_set_property raised IXManagerError (or its subclass): log, then
\* await coordinator.async_request_refresh(); the flag stays set meanwhile.
patch_failed(p, o) ==
    /\ pc[p] = "patch"
    /\ IsIXManagerError(async_set_property(o))
    /\ outstanding' = [outstanding EXCEPT ![p] = @ - 1]
    /\ tasks' = Append(tasks, RollbackTask(p))
    /\ pc' = [pc EXCEPT ![p] = "rollback"]
    /\ ev' = Event("patch_failed", p, FALSE, TRUE)
    /\ UNCHANGED <<phase, data, last_update_success, api_call_in_progress,
                   cable_type, entry_cable, wval, opt, remote, enveloped, nwrites, npolls>>

\* async_set_property raised something else: only the finally clause runs
\* and the exception leaves the write.
patch_raised(p, o) ==
    /\ pc[p] = "patch"
    /\ async_set_property(o) = "Exception"
    /\ outstanding' = [outstanding EXCEPT ![p] = @ - 1]
    /\ api_call_in_progress' = FinallyFlag(p)
    /\ pc' = [pc EXCEPT ![p] = "idle"]
    /\ wval' = [wval EXCEPT ![p] = NoneR]
    /\ opt' = [opt EXCEPT ![p] = FALSE]
    /\ ev' = Event("patch_raised", p, FALSE, TRUE)
    /\ UNCHANGED <<phase, data, last_update_success, cable_type, entry_cable, tasks, remote, enveloped, nwrites, npolls>>

\* ---------------------------------------------------------------- refreshes
\* The host scheduler fires the update interval: a poll starts and sends its
\* GET.  The next poll is scheduled only when this one has finished.
poll_start ==
    /\ phase = "running"
    /\ npolls < MaxPolls
    /\ npolls' = npolls + 1
    /\ \A i \in 1..Len(tasks) : tasks[i].kind # "poll"
    /\ tasks' = Append(tasks, Task("poll", "-", "get"))
    /\ ev' = Event("poll_start", "-", TRUE, TRUE)
    /\ UNCHANGED <<phase, data, last_update_success, api_call_in_progress,
                   cable_type, entry_cable, pc, wval, opt, outstanding, remote, enveloped, nwrites>>

\* Faulty variant: the delayed refresh fetches the written key alone.
DelayedRefreshKeys_Single(p) == {p}

\* Keys of the refresh requested by _async_delayed_refresh:
\* coordinator.async_request_refresh() runs _async_update_data.
DelayedRefreshKeys(p) == properties_to_fetch

\* _async_delayed_refresh resumes from "await asyncio.sleep(d)", having slept
\* d tenths of a second, and requests the coordinator refresh.
delayed_request(i) ==
    /\ i \in 1..Len(tasks)
    /\ tasks[i].kind = "delayed"
    /\ tasks[i].stage = "sleep"
    /\ tasks' = [tasks EXCEPT ![i] = [@ EXCEPT !.stage = "get",
                                               !.slept = RefreshDelay(tasks[i].p),
                                               !.keys = DelayedRefreshKeys(tasks[i].p)]]
    /\ ev' = Event("delayed_request", tasks[i].p, TRUE, TRUE)
    /\ UNCHANGED <<phase, data, last_update_success, api_call_in_progress,
                   cable_type, entry_cable, pc, wval, opt, outstanding, remote, enveloped, nwrites, npolls>>

\* Faulty variant: no "except Exception" clause, an unexpected exception
\* leaves _async_update_data as it is.
async_update_data_Reraise(res) ==
    IF res = "data" THEN "data"
    ELSE IF res = "Exception" THEN "Exception" ELSE "UpdateFailed"

\* _async_update_data: the fetched dict, or UpdateFailed for every exception.
async_update_data(res) == IF res = "data" THEN "data" ELSE "UpdateFailed"

\* The endpoint (or the transport) settles the GET of task i, which fixes
\* what _async_update_data will hand to the coordinator.
remote_answer(i, o) ==
    /\ i \in 1..Len(tasks)
    /\ tasks[i].stage = "get"
    /\ tasks[i].kind # "single"
    /\ tasks' = [tasks EXCEPT ![i] =
                   [@ EXCEPT !.stage = "resp",
                             !.res = async_update_data(async_get_properties(o)),
                             !.resp = IF async_get_properties(o) = "data"
                                      THEN Response(tasks[i].keys) ELSE EmptyMap]]
    /\ ev' = Event("answer", tasks[i].p, async_get_properties(o) = "data", TRUE)
    /\ UNCHANGED <<phase, data, last_update_success, api_call_in_progress,
                   cable_type, entry_cable, pc, wval, opt, outstanding, remote, enveloped, nwrites, npolls>>

\* Faulty variant: a failed refresh clears the snapshot.
DataAfterRefresh_Clear(d, t) ==
    IF t.res = "data" THEN Dict(t.resp) ELSE NoData

\* Faulty variant: the fetched dict fills in missing keys only, the entries
\* data already holds stay.
DataAfterRefresh_KeepOld(d, t) ==
    IF t.res = "data"
    THEN Dict([k \in DOMAIN t.resp \cup DOMAIN d.map |->
                  IF k \in DOMAIN d.map THEN d.map[k] ELSE t.resp[k]])
    ELSE d

\* Faulty variant: the fetched dict is dropped.
DataAfterRefresh_Keep(d, t) == d

\* The coordinator takes the result of _async_update_data: data is replaced
\* on success and kept on UpdateFailed.
DataAfterRefresh(d, t) ==
    IF t.res = "data" THEN Dict(t.resp) ELSE d

\* Faulty variant: UpdateFailed does not reach last_update_success.
SuccessAfterRefresh_Always(t) == TRUE

\* last_update_success after the refresh.
SuccessAfterRefresh(t) == t.res = "data"

NoOptimistic == [p \in Points |-> FALSE]
ClearOpt(ts) == [i \in 1..Len(ts) |-> [ts[i] EXCEPT !.opt = FALSE]]

\* A poll or a delayed refresh finishes; a failure of the delayed refresh
\* is logged by _async_delayed_refresh and goes no further.
refresh_done(i) ==
    /\ i \in 1..Len(tasks)
    /\ tasks[i].stage = "resp"
    /\ tasks[i].kind \in {"poll", "delayed"}
    /\ data' = DataAfterRefresh(data, tasks[i])
    /\ last_update_success' = SuccessAfterRefresh(tasks[i])
    /\ opt' = NoOptimistic
    /\ tasks' = ClearOpt(RemoveAt(tasks, i))
    /\ ev' = Event(IF tasks[i].kind = "poll" THEN "poll_done" ELSE "delayed_done",
                   tasks[i].p, SuccessAfterRefresh(tasks[i]),
                   ~tasks[i].stale)
    /\ UNCHANGED <<phase, api_call_in_progress, cable_type, entry_cable, pc, wval,
                   outstanding, remote, enveloped, nwrites, npolls>>

\* The refresh awaited in the except clause returns; finally clears the flag
\* and the write returns.
rollback_done(i) ==
    /\ i \in 1..Len(tasks)
    /\ tasks[i].stage = "resp"
    /\ tasks[i].kind = "rollback"
    /\ data' = DataAfterRefresh(data, tasks[i])
    /\ last_update_success' = SuccessAfterRefresh(tasks[i])
    /\ opt' = NoOptimistic
    /\ tasks' = ClearOpt(RemoveAt(tasks, i))
    /\ api_call_in_progress' = FinallyFlag(tasks[i].p)
    /\ pc' = [pc EXCEPT ![tasks[i].p] = "idle"]
    /\ wval' = [wval EXCEPT ![tasks[i].p] = NoneR]
    /\ ev' = Event("write_returned", tasks[i].p, SuccessAfterRefresh(tasks[i]),
                   ~tasks[i].stale)
    /\ UNCHANGED <<phase, cable_type, entry_cable, outstanding, remote, enveloped, nwrites, npolls>>

TaskIds == 1..(MaxWrites + MaxPolls)

Next ==
    \/ \E o \in HttpOutcomes : setup_validate(o)
    \/ \E o \in HttpOutcomes : setup_first_refresh(o)
    \/ \E p \in Switches, state \in BOOLEAN : async_set_state(p, state)
    \/ \E p \in Numbers, value \in NumInputs : async_set_native_value(p, value)
    \/ \E p \in Points, o \in HttpOutcomes : patch_ok(p, o)
    \/ \E p \in Points, o \in HttpOutcomes : patch_failed(p, o)
    \/ \E p \in Points, o \in HttpOutcomes : patch_raised(p, o)
    \/ poll_start
    \/ \E i \in TaskIds : delayed_request(i)
    \/ \E i \in TaskIds, o \in HttpOutcomes : remote_answer(i, o)
    \/ \E i \in TaskIds : refresh_done(i)
    \/ \E i \in TaskIds : rollback_done(i)

Spec == Init /\ [][Next]_vars

\* Every network call ends within API_TIMEOUT and the event loop resumes every
\* coroutine that can run: a sent PATCH returns, a requested refresh is
\* answered and applied, a sleeping delayed refresh wakes up.
LiveNext == Next /\ nwrites' <= LiveWrites

LiveSpec ==
    /\ Init
    /\ [][LiveNext]_vars
    /\ WF_vars(\E p \in Points, o \in HttpOutcomes :
                  patch_ok(p, o) \/ patch_failed(p, o) \/ patch_raised(p, o))
    /\ WF_vars(\E i \in TaskIds : delayed_request(i))
    /\ WF_vars(\E i \in TaskIds, o \in HttpOutcomes : remote_answer(i, o))
    /\ WF_vars(\E i \in TaskIds : refresh_done(i) \/ rollback_done(i))

\* ------------------------------------------ async_update_single_property
\* Nothing in the repository calls async_update_single_property; it is a
\* public method of the coordinator, modelled here as called by the host.
SingleKeys == {PROPERTY_CHARGING_ENABLE, PROPERTY_SIGNAL, PROPERTY_TOTAL_ENERGY}

Singles == {i \in 1..Len(tasks) : tasks[i].kind = "single"}

\* The call sends its GET for [property_key].
single_request(k) ==
    /\ phase = "running"
    /\ Cardinality(Singles) < MaxSingles
    /\ tasks' = Append(tasks, [Task("single", k, "get") EXCEPT !.keys = {k}])
    /\ ev' = Event("single_request", k, TRUE, TRUE)
    /\ UNCHANGED <<phase, data, last_update_success, api_call_in_progress,
                   cable_type, entry_cable, pc, wval, opt, outstanding, remote,
                   enveloped, nwrites, npolls>>

\* The GET is settled: the dict, or the exception async_get_properties raises.
single_answer(i, o) ==
    /\ i \in 1..Len(tasks)
    /\ tasks[i].kind = "single"
    /\ tasks[i].stage = "get"
    /\ tasks' = [tasks EXCEPT ![i] =
                   [@ EXCEPT !.stage = "resp",
                             !.res = async_get_properties(o),
                             !.resp = IF async_get_properties(o) = "data"
                                      THEN Response(tasks[i].keys) ELSE EmptyMap]]
    /\ ev' = Event("single_answer", tasks[i].p, async_get_properties(o) = "data", TRUE)
    /\ UNCHANGED <<phase, data, last_update_success, api_call_in_progress,
                   cable_type, entry_cable, pc, wval, opt, outstanding, remote,
                   enveloped, nwrites, npolls>>

\* What async_update_single_property returns: the dict, or None after
\* "except Exception".
SingleResult(res) == IF res = "data" THEN "data" ELSE "None"

\* Faulty variant: a failed probe clears the snapshot.
SingleAfter_Clear(d, t) ==
    IF t.res = "data" /\ Truthy(d) /\ t.p \in DOMAIN t.resp
    THEN Dict(DictSet(d.map, t.p, t.resp[t.p])) ELSE NoData

\* Faulty variant: the fetched dict replaces the snapshot.
SingleAfter_Replace(d, t) ==
    IF t.res = "data" /\ Truthy(d) /\ t.p \in DOMAIN t.resp
    THEN Dict(t.resp) ELSE d

\* "if self.data and property_key in data: self.data[property_key] = ..."
SingleAfter(d, t) ==
    IF t.res = "data" /\ Truthy(d) /\ t.p \in DOMAIN t.resp
    THEN Dict(DictSet(d.map, t.p, t.resp[t.p])) ELSE d

\* The call returns; last_update_success is not touched.
single_done(i) ==
    /\ i \in 1..Len(tasks)
    /\ tasks[i].kind = "single"
    /\ tasks[i].stage = "resp"
    /\ data' = SingleAfter(data, tasks[i])
    /\ opt' = IF data' = data THEN opt ELSE NoOptimistic
    /\ tasks' = IF data' = data THEN RemoveAt(tasks, i)
                ELSE ClearOpt(RemoveAt(tasks, i))
    /\ ev' = Event("single_done", tasks[i].p, SingleResult(tasks[i].res) = "data",
                   ~tasks[i].stale)
    /\ UNCHANGED <<phase, last_update_success, api_call_in_progress, cable_type,
                   entry_cable, pc, wval, outstanding, remote, enveloped,
                   nwrites, npolls>>

SingleTaskIds == 1..(MaxWrites + MaxPolls + MaxSingles)

SingleNext ==
    \/ Next /\ nwrites' <= SingleWrites
    \/ \E k \in SingleKeys : single_request(k)
    \/ \E i \in SingleTaskIds, o \in HttpOutcomes : single_answer(i, o)
    \/ \E i \in SingleTaskIds : single_done(i)

SingleSpec == Init /\ [][SingleNext]_vars

\* ---------------------------------------------------------------- sensor.py
\* IXManagerSensorBase.native_value: None when unavailable, else the entry
\* without its envelope (None when that is null).
sensor_base_value(lus, d, k) ==
    IF ~available(lus, d, k) THEN NoneR
    ELSE IF Unwrap(d.map[k]).t = "null" THEN NoneR ELSE Unwrap(d.map[k])

\* int(x) of a float given in thousandths: the fraction is cut off, towards 0.
Trunc(m) == IF m >= 0 THEN m \div 1000 ELSE -((-m) \div 1000)

\* The nearest integer of a float given in thousandths (no input of the
\* model lies halfway).
Nearest(m) == IF m >= 0 THEN (m + 500) \div 1000 ELSE -((500 - m) \div 1000)

\* round(x, 2) of a float given in thousandths, again in thousandths (no
\* input of the model lies halfway between two hundredths).
Round2(m) == IF m >= 0 THEN ((m + 5) \div 10) * 10 ELSE -(((5 - m) \div 10) * 10)

\* Faulty variant: a value that does not convert counts as 0.
IntOf_Zero(value) ==
    IF value.t = "num" THEN NumV(value.n)
    ELSE IF value.t = "dec" THEN NumV(Trunc(value.n))
    ELSE IF value.t = "bool" THEN NumV(IF value.b THEN 1 ELSE 0)
    ELSE IF value.t = "str" /\ ParsesAsFloat(value.s) THEN NumV(FloatOfStr(value.s))
    ELSE NumV(0)

\* Faulty variant: a float goes to the nearest integer.
IntOf_Round(value) ==
    IF value.t = "num" THEN NumV(value.n)
    ELSE IF value.t = "dec" THEN NumV(Nearest(value.n))
    ELSE IF value.t = "bool" THEN NumV(IF value.b THEN 1 ELSE 0)
    ELSE IF value.t = "str" /\ ParsesAsFloat(value.s) THEN NumV(FloatOfStr(value.s))
    ELSE NoneR

\* int(value) / float(value) on the values of the model: None stands for
\* the ValueError or TypeError the sensors catch.
IntOf(value) ==
    IF value.t = "num" THEN NumV(value.n)
    ELSE IF value.t = "dec" THEN NumV(Trunc(value.n))
    ELSE IF value.t = "bool" THEN NumV(IF value.b THEN 1 ELSE 0)
    ELSE IF value.t = "str" /\ ParsesAsFloat(value.s) THEN NumV(FloatOfStr(value.s))
    ELSE NoneR

\* round(float(value), 2) of the per-phase current sensors.
Round2Of(value) ==
    IF value.t = "num" THEN NumV(value.n)
    ELSE IF value.t = "dec" THEN Dec(Round2(value.n))
    ELSE IF value.t = "bool" THEN NumV(IF value.b THEN 1 ELSE 0)
    ELSE IF value.t = "str" /\ ParsesAsFloat(value.s) THEN NumV(FloatOfStr(value.s))
    ELSE NoneR

\* The digits after the point of str(x) for a float given in thousandths.
FracDigits(f) ==
    IF f % 100 = 0 THEN ToString(f \div 100)
    ELSE IF f % 10 = 0 THEN (IF f < 100 THEN "0" ELSE "") \o ToString(f \div 10)
    ELSE (IF f < 10 THEN "00" ELSE IF f < 100 THEN "0" ELSE "") \o ToString(f)

\* str(x) of a float given in thousandths.
DecString(m) ==
    LET a == IF m < 0 THEN -m ELSE m IN
    (IF m < 0 THEN "-" ELSE "") \o ToString(a \div 1000) \o "." \o FracDigits(a % 1000)

\* str(value)
StrOf(value) ==
    IF value.t = "str" THEN StrV(value.s)
    ELSE IF value.t = "bool" THEN StrV(IF value.b THEN "True" ELSE "False")
    ELSE IF value.t = "dec" THEN StrV(DecString(value.n))
    ELSE StrV(ToString(value.n))

\* "enabled" / "disabled" of the charging-enable and single-phase sensors.
EnabledOf(value) ==
    IF value.t = "bool" THEN StrV(IF value.b THEN "enabled" ELSE "disabled")
    ELSE StrV(IF value.t = "str" /\ Lower(value.s) = "true" THEN "enabled" ELSE "disabled")

\* Faulty variant: int(value) as it comes.
SignalOf_Raw(value) == IntOf(value)

\* max(0, min(100, int(value))) of the signal strength sensor.
SignalOf(value) ==
    IF IntOf(value) = NoneR THEN NoneR
    ELSE NumV(IF IntOf(value).n > 100 THEN 100
              ELSE IF IntOf(value).n < 0 THEN 0 ELSE IntOf(value).n)

\* native_value of the sensor class of key k.
sensor_native_value(lus, d, k) ==
    LET value == sensor_base_value(lus, d, k) IN
    IF value = NoneR THEN NoneR
    ELSE IF k \in {PROPERTY_CHARGING_ENABLE, PROPERTY_SINGLE_PHASE} THEN EnabledOf(value)
    ELSE IF k = PROPERTY_SIGNAL THEN SignalOf(value)
    ELSE IF k = PROPERTY_CHARGING_STATUS THEN StrOf(value)
    ELSE IF k \in {PROPERTY_CHARGING_CURRENT, PROPERTY_CHARGING_CURRENT_L2,
                   PROPERTY_CHARGING_CURRENT_L3} THEN Round2Of(value)
    ELSE IntOf(value)

\* ------------------------------------------------- reads and client calls
\* Snapshot entries a read can meet: the JSON values, bare and in {"value": V}.
BareInputs == {BoolV(TRUE), BoolV(FALSE), NumV(10), NumV(150), NumV(-5),
               DecV(15700), DecV(15678), DecV(15200), DecV(-2700),
               StrV("true"), StrV("x"), StrV("16"), NullV}
EntryInputs == BareInputs \cup {Envelope(v) : v \in BareInputs}

\* Snapshots: none yet, empty, or one key with one entry.
SnapshotInputs ==
    {NoData, Dict(EmptyMap)} \cup
    {Dict([x \in {k} |-> e]) : k \in properties_to_fetch, e \in EntryInputs}

\* The entities the platforms create: kind and key.
Readers ==
    {<<"sensor", k>> : k \in properties_to_fetch} \cup
    {<<"switch", k>> : k \in Switches} \cup
    {<<"number", k>> : k \in Numbers}

\* The state property of an entity of the given kind.
PointValue(kind, lus, d, k) ==
    IF kind = "switch" THEN is_on(lus, d, k)
    ELSE IF kind = "number" THEN native_value(lus, d, k)
    ELSE sensor_native_value(lus, d, k)

\* The integration is running with some snapshot and some outcome of the
\* last update; nothing is in flight.
PureInit ==
    /\ phase = "running"
    /\ data \in SnapshotInputs
    /\ last_update_success \in BOOLEAN
    /\ api_call_in_progress = [p \in Points |-> FALSE]
    /\ cable_type \in CableInputs
    /\ entry_cable = cable_type
    /\ pc = [p \in Points |-> "idle"]
    /\ wval = [p \in Points |-> NoneR]
    /\ opt = [p \in Points |-> FALSE]
    /\ outstanding = [p \in Points |-> 0]
    /\ tasks = <<>>
    /\ remote = EmptyMap
    /\ enveloped \in WireFormats
    /\ nwrites = 0
    /\ npolls = 0
    /\ ev = Event("init", "-", TRUE, TRUE)

\* Faulty variant: the read asks the coordinator for a refresh.
read_point_Refresh(kind, k) ==
    /\ phase = "running"
    /\ Len(tasks) < 2
    /\ tasks' = Append(tasks, Task("poll", "-", "get"))
    /\ ev' = [op |-> "read", p |-> k, ok |-> available(last_update_success, data, k),
              fresh |-> TRUE, kind |-> kind,
              v |-> PointValue(kind, last_update_success, data, k)]
    /\ UNCHANGED <<phase, data, last_update_success, api_call_in_progress,
                   cable_type, entry_cable, pc, wval, opt, outstanding,
                   remote, enveloped, nwrites, npolls>>

\* The host reads available and the state property of an entity.
read_point(kind, k) ==
    /\ phase = "running"
    /\ ev' = [op |-> "read", p |-> k, ok |-> available(last_update_success, data, k),
              fresh |-> TRUE, kind |-> kind,
              v |-> PointValue(kind, last_update_success, data, k)]
    /\ UNCHANGED <<phase, data, last_update_success, api_call_in_progress,
                   cable_type, entry_cable, pc, wval, opt, outstanding, tasks,
                   remote, enveloped, nwrites, npolls>>

\* A caller awaits async_get_properties and sees what it returns or raises.
client_get(o) ==
    /\ ev' = [op |-> "client_get", p |-> o, ok |-> async_get_properties(o) = "data",
              fresh |-> TRUE, res |-> async_get_properties(o)]
    /\ UNCHANGED <<phase, data, last_update_success, api_call_in_progress,
                   cable_type, entry_cable, pc, wval, opt, outstanding, tasks,
                   remote, enveloped, nwrites, npolls>>

\* A caller awaits async_set_property and sees what it returns or raises.
client_set(o) ==
    /\ ev' = [op |-> "client_set", p |-> o, ok |-> async_set_property(o) = "True",
              fresh |-> TRUE, res |-> async_set_property(o)]
    /\ UNCHANGED <<phase, data, last_update_success, api_call_in_progress,
                   cable_type, entry_cable, pc, wval, opt, outstanding, tasks,
                   remote, enveloped, nwrites, npolls>>

\* What a direct call of the client can meet: the outcomes above and two
\* more statuses, one 2xx the client does not name and one redirect.
ClientOutcomes == HttpOutcomes \cup {"201", "301"}
HttpStatuses == {"200", "201", "204", "301", "401", "404", "500"}
Is2xx(o) == o \in {"200", "201", "204"}

PureNext ==
    \/ \E r \in Readers : read_point(r[1], r[2])
    \/ \E o \in ClientOutcomes : client_get(o)
    \/ \E o \in ClientOutcomes : client_set(o)

PureSpec == PureInit /\ [][PureNext]_vars

\* The running integration, read by the host at any moment.
ReadNext ==
    \/ Next /\ nwrites' <= ReadWrites
    \/ \E r \in Readers : read_point(r[1], r[2])

ReadSpec == Init /\ [][ReadNext]_vars

\* ------------------------------------------------------- cable and options
\* Requests to the number entity around both caps and below the advertised
\* minimum, and the cable tags the config and options forms offer.
ClampInputs == {3, 16, 20, 32, 40}
CableOptions == DOMAIN CABLE_TYPES

\* An entry created with either cable and a device that reports its values.
CableInit ==
    /\ phase = "validate"
    /\ data = NoData
    /\ last_update_success = TRUE
    /\ api_call_in_progress = [p \in Points |-> FALSE]
    /\ cable_type \in CableOptions
    /\ entry_cable = cable_type
    /\ pc = [p \in Points |-> "idle"]
    /\ wval = [p \in Points |-> NoneR]
    /\ opt = [p \in Points |-> FALSE]
    /\ outstanding = [p \in Points |-> 0]
    /\ tasks = <<>>
    /\ remote = RemoteOf(BoolV(FALSE), BoolV(FALSE), NumV(10), NumV(70))
    /\ enveloped \in WireFormats
    /\ nwrites = 0
    /\ npolls = 0
    /\ ev = Event("init", "-", TRUE, TRUE)

\* OptionsFlowHandler.async_step_init with user input: the entry's data gets
\* the new cable type. No update listener is registered and the entry is not
\* reloaded, so the number entity keeps the _cable_type of its __init__.
options_update(c) ==
    /\ phase = "running"
    /\ entry_cable' = c
    /\ ev' = Event("options_update", "-", TRUE, TRUE)
    /\ UNCHANGED <<phase, data, last_update_success, api_call_in_progress,
                   cable_type, pc, wval, opt, outstanding, tasks,
                   remote, enveloped, nwrites, npolls>>

CableNext ==
    \/ \E o \in HttpOutcomes : setup_validate(o)
    \/ \E o \in HttpOutcomes : setup_first_refresh(o)
    \/ \E c \in CableOptions : options_update(c)
    \/ \E p \in Numbers, value \in ClampInputs : async_set_native_value(p, value)
    \/ \E p \in Numbers, o \in HttpOutcomes : patch_ok(p, o)
    \/ \E p \in Numbers, o \in HttpOutcomes : patch_failed(p, o)
    \/ \E p \in Numbers, o \in HttpOutcomes : patch_raised(p, o)
    \/ \E i \in TaskIds : delayed_request(i)
    \/ \E i \in TaskIds, o \in HttpOutcomes : remote_answer(i, o)
    \/ \E i \in TaskIds : refresh_done(i)
    \/ \E i \in TaskIds : rollback_done(i)

CableSpec == CableInit /\ [][CableNext]_vars

\* ------------------------------------------------------------ config flow
\* validate_input for the cable tag c: the exception of the validation, or
\* the info dict ("info") built with CABLE_TYPES[c], a plain subscript that
\* raises KeyError for a tag CABLE_TYPES does not hold.
validate_input(o, c) ==
    IF async_validate_connection(o) # "True" THEN async_validate_connection(o)
    ELSE IF c \in DOMAIN CABLE_TYPES THEN "info" ELSE "KeyError"

\* The except clauses of async_step_user and async_step_reauth_confirm, in
\* their order: the value of errors["base"].
FlowError(res) ==
    IF res = "IXManagerConnectionError" THEN "cannot_connect"
    ELSE IF res = "IXManagerAuthenticationError" THEN "invalid_auth"
    ELSE "unknown"

\* No entry is configured yet.
FlowInit ==
    /\ phase = "no_entry"
    /\ data = NoData
    /\ last_update_success = TRUE
    /\ api_call_in_progress = [p \in Points |-> FALSE]
    /\ cable_type = DEFAULT_CABLE_TYPE
    /\ entry_cable = DEFAULT_CABLE_TYPE
    /\ pc = [p \in Points |-> "idle"]
    /\ wval = [p \in Points |-> NoneR]
    /\ opt = [p \in Points |-> FALSE]
    /\ outstanding = [p \in Points |-> 0]
    /\ tasks = <<>>
    /\ remote = RemoteOf(BoolV(FALSE), BoolV(FALSE), NumV(10), NumV(70))
    /\ enveloped \in WireFormats
    /\ nwrites = 0
    /\ npolls = 0
    /\ ev = Event("init", "-", TRUE, TRUE)

\* async_step_user with user input: the entry is created when validate_input
\* returns, otherwise the form is shown again with errors["base"].
async_step_user(o, c) ==
    /\ phase = "no_entry"
    /\ IF validate_input(o, c) = "info"
       THEN /\ phase' = "validate"
            /\ entry_cable' = c
            /\ cable_type' = c
            /\ ev' = [op |-> "step_user", p |-> o, ok |-> TRUE, fresh |-> TRUE,
                      res |-> "create_entry"]
       ELSE /\ ev' = [op |-> "step_user", p |-> o, ok |-> FALSE, fresh |-> TRUE,
                      res |-> FlowError(validate_input(o, c))]
            /\ UNCHANGED <<phase, entry_cable, cable_type>>
    /\ UNCHANGED <<data, last_update_success, api_call_in_progress, pc, wval, opt,
                   outstanding, tasks, remote, enveloped, nwrites, npolls>>

\* async_step_reauth_confirm with user input, for an entry whose setup has
\* failed: async_update_reload_and_abort stores the key and sets the entry
\* up again when validate_input returns, otherwise the form is shown again.
async_step_reauth_confirm(o) ==
    /\ phase = "failed"
    /\ IF validate_input(o, entry_cable) = "info"
       THEN /\ phase' = "validate"
            /\ last_update_success' = TRUE
            /\ ev' = [op |-> "reauth_confirm", p |-> o, ok |-> TRUE, fresh |-> TRUE,
                      res |-> "reauth_successful"]
       ELSE /\ ev' = [op |-> "reauth_confirm", p |-> o, ok |-> FALSE, fresh |-> TRUE,
                      res |-> FlowError(validate_input(o, entry_cable))]
            /\ UNCHANGED <<phase, last_update_success>>
    /\ UNCHANGED <<data, api_call_in_progress, cable_type, entry_cable, pc, wval, opt,
                   outstanding, tasks, remote, enveloped, nwrites, npolls>>

FlowNext ==
    \/ \E o \in HttpOutcomes, c \in CableOptions : async_step_user(o, c)
    \/ \E o \in HttpOutcomes : async_step_reauth_confirm(o)
    \/ \E o \in HttpOutcomes : setup_validate(o)
    \/ \E o \in HttpOutcomes : setup_first_refresh(o)
    \/ \E p \in Numbers, value \in NumInputs : async_set_native_value(p, value)
    \/ \E p \in Numbers, o \in HttpOutcomes : patch_ok(p, o)
    \/ \E p \in Numbers, o \in HttpOutcomes : patch_failed(p, o)
    \/ \E p \in Numbers, o \in HttpOutcomes : patch_raised(p, o)
    \/ \E i \in TaskIds : delayed_request(i)
    \/ \E i \in TaskIds, o \in HttpOutcomes : remote_answer(i, o)
    \/ \E i \in TaskIds : refresh_done(i)
    \/ \E i \in TaskIds : rollback_done(i)

FlowSpec == FlowInit /\ [][FlowNext]_vars

\* ------------------------------------------------------------ stored tags
\* Cable tags an entry's stored data can hold: the two the forms offer and
\* one that CABLE_TYPES does not know.
TagInputs == CableOptions \cup {"64A"}

\* An entry whose data holds any of these tags is set up.
TagInit ==
    /\ phase = "validate"
    /\ data = NoData
    /\ last_update_success = TRUE
    /\ api_call_in_progress = [p \in Points |-> FALSE]
    /\ entry_cable \in TagInputs
    /\ cable_type = entry_cable
    /\ pc = [p \in Points |-> "idle"]
    /\ wval = [p \in Points |-> NoneR]
    /\ opt = [p \in Points |-> FALSE]
    /\ outstanding = [p \in Points |-> 0]
    /\ tasks = <<>>
    /\ remote = RemoteOf(BoolV(FALSE), BoolV(FALSE), NumV(10), NumV(70))
    /\ enveloped \in WireFormats
    /\ nwrites = 0
    /\ npolls = 0
    /\ ev = Event("init", "-", TRUE, TRUE)

TagNext ==
    \/ \E o \in HttpOutcomes : setup_validate(o)
    \/ \E o \in HttpOutcomes : setup_first_refresh(o)
    \/ \E o \in HttpOutcomes : async_step_reauth_confirm(o)
    \/ \E p \in Numbers, value \in ClampInputs : async_set_native_value(p, value)
    \/ \E p \in Numbers, o \in HttpOutcomes : patch_ok(p, o)
    \/ \E p \in Numbers, o \in HttpOutcomes : patch_failed(p, o)
    \/ \E p \in Numbers, o \in HttpOutcomes : patch_raised(p, o)
    \/ \E i \in TaskIds : delayed_request(i)
    \/ \E i \in TaskIds, o \in HttpOutcomes : remote_answer(i, o)
    \/ \E i \in TaskIds : refresh_done(i)
    \/ \E i \in TaskIds : rollback_done(i)

TagSpec == TagInit /\ [][TagNext]_vars

\* ---------------------------------------------------------------- properties
\* The value data holds for k, without its envelope.
Logical(d, k) == IF ~d.none /\ k \in DOMAIN d.map THEN Unwrap(d.map[k]) ELSE Missing

Delayed(p) == {i \in 1..Len(tasks) : tasks[i].kind = "delayed" /\ tasks[i].p = p}

\* C1: in every reachable state each writable point has at most one PATCH
\* (async_set_property call) outstanding.
C1_OnePatchPerPoint == \A p \in Points : outstanding[p] <= 1

C1_Witness ==
    /\ ev.op = "write_dropped"
    /\ outstanding[ev.p] = 1
    /\ nwrites = MaxWrites

\* C2: a write request that finds the point's flag set changes nothing: no
\* PATCH is sent, data is not touched, no refresh is requested, the flag stays
\* set, nothing is kept for later and the call returns without raising.
C2_DroppedIsNoOp ==
    [][ev'.op = "write_dropped" =>
          /\ api_call_in_progress[ev'.p]
          /\ api_call_in_progress'[ev'.p]
          /\ ev'.ok
          /\ UNCHANGED <<phase, data, last_update_success, api_call_in_progress,
                         cable_type, entry_cable, pc, wval, opt, outstanding, tasks, remote,
                         enveloped, nwrites, npolls>>]_vars

C2_Witness ==
    /\ ev.op = "write_dropped"
    /\ pc[ev.p] = "rollback"

\* C3: the flag of a point is set only while a write of that point is running,
\* so it is clear once the write has ended in whichever way, and every write
\* that set it does end and clear it.
C3_FlagCleared ==
    /\ [](\A p \in Points : pc[p] = "idle" => ~api_call_in_progress[p])
    /\ \A p \in Points : api_call_in_progress[p] ~> ~api_call_in_progress[p]

C3_Witness ==
    /\ ev.op = "patch_raised"
    /\ ~api_call_in_progress[ev.p]

\* C4 as stated: at the moment the PATCH of an accepted write is sent, data
\* holds the new value under the written key and the state was written to the
\* host, whatever data was.
C4_Orig ==
    ev.op = "write_accepted" =>
        /\ Logical(data, ev.p) = wval[ev.p]
        /\ ev.ok

\* C4 amended: when data is a non-empty dict at the time of the write, data
\* holds the new value under the written key and the state was written to the
\* host at the moment the PATCH is sent; when data is None or empty the PATCH
\* is sent all the same, data is left as it was and nothing is written to the
\* host.
C4_OptimisticWhenData ==
    [][ev'.op = "write_accepted" =>
          /\ outstanding'[ev'.p] = outstanding[ev'.p] + 1
          /\ IF Truthy(data)
             THEN /\ ~data'.none
                  /\ ev'.p \in DOMAIN data'.map
                  /\ data'.map[ev'.p] = wval'[ev'.p]
                  /\ ev'.ok
             ELSE /\ data' = data
                  /\ ~ev'.ok]_vars

C4_Witness ==
    /\ ev.op = "write_accepted"
    /\ ev.ok
    /\ Logical(data, ev.p) = wval[ev.p]
    /\ RemoteValue(ev.p) # wval[ev.p]

\* C5 as stated, at the moments a scheduled poll finishes with success: while
\* the delayed refresh of the latest successful write of a switch has not
\* finished, is_on returns the written value.
C5_Orig ==
    (ev.op = "poll_done" /\ ev.ok) =>
        \A p \in Switches : \A i \in Delayed(p) :
            ~tasks[i].sup => is_on(last_update_success, data, p) = tasks[i].v

\* C5 amended: after a switch write whose PATCH succeeded, made while data was
\* non-empty and the last update had succeeded, is_on returns the written value
\* for as long as no refresh of the coordinator (scheduled poll, delayed or
\* rollback refresh) has finished since the write was accepted and no later
\* write of the switch was accepted.
C5_ReadBackUntilRefresh ==
    \A p \in Switches : \A i \in Delayed(p) :
        (~tasks[i].sup /\ tasks[i].opt) =>
            is_on(last_update_success, data, p) = tasks[i].v

C5_Witness ==
    \E p \in Switches : \E i \in Delayed(p) :
        /\ ~tasks[i].sup
        /\ tasks[i].opt
        /\ tasks[i].stage = "resp"
        /\ tasks[i].v = BoolV(FALSE)
        /\ is_on(last_update_success, data, p) = BoolV(FALSE)
        /\ \E j \in 1..Len(tasks) : tasks[j].kind = "poll"

\* The refresh tasks of kind k that belong to point p.
TasksOf(k, p) == {i \in 1..Len(tasks) : tasks[i].kind = k /\ tasks[i].p = p}

\* C6: when the PATCH fails with IXManagerError (401 and 404 are such
\* failures), the same step requests a refresh of all eleven keys that the
\* write awaits with its flag still set, and no delayed refresh is scheduled;
\* when that refresh succeeds, data holds for the written key what the device
\* holds at the moment the write returns.
C6_RollbackOnFailure ==
    [][/\ \A o \in {"401", "404"} : IsIXManagerError(async_set_property(o))
       /\ ev'.op = "patch_failed" =>
             /\ Len(tasks') = Len(tasks) + 1
             /\ tasks'[Len(tasks')].kind = "rollback"
             /\ tasks'[Len(tasks')].p = ev'.p
             /\ tasks'[Len(tasks')].stage = "get"
             /\ tasks'[Len(tasks')].keys = properties_to_fetch
             /\ \A i \in 1..Len(tasks) : tasks'[i] = tasks[i]
             /\ api_call_in_progress'[ev'.p]
             /\ pc'[ev'.p] = "rollback"
       /\ ev'.op = "write_returned" =>
             /\ pc[ev'.p] = "rollback"
             /\ pc'[ev'.p] = "idle"
             /\ Len(tasks') = Len(tasks) - 1
             /\ ev'.ok => Logical(data', ev'.p) = RemoteValue(ev'.p)]_vars

C6_Witness ==
    /\ ev.op = "patch_failed"
    /\ Logical(data, ev.p) = wval[ev.p]
    /\ RemoteValue(ev.p) # wval[ev.p]
    /\ TasksOf("rollback", ev.p) # {}
    /\ TasksOf("delayed", ev.p) = {}

\* C7: a PATCH that succeeded leaves a delayed refresh asleep; no delayed
\* refresh exists for a point before a PATCH of it succeeded; the refresh is
\* requested when the sleep has lasted 5 tenths of a second for the number and
\* 1 tenth for a switch; and the refresh does run to its end.
C7_DelayedRefresh ==
    /\ [][/\ ev'.op = "patch_ok" =>
                /\ Len(tasks') = Len(tasks) + 1
                /\ tasks'[Len(tasks')].kind = "delayed"
                /\ tasks'[Len(tasks')].p = ev'.p
                /\ tasks'[Len(tasks')].stage = "sleep"
                /\ tasks'[Len(tasks')].slept = 0
          /\ ev'.op # "patch_ok" =>
                \A p \in Points : Cardinality(TasksOf("delayed", p)') <=
                                  Cardinality(TasksOf("delayed", p))
          /\ ev'.op = "delayed_request" =>
                \E i \in TasksOf("delayed", ev'.p) :
                    /\ tasks[i].stage = "sleep"
                    /\ tasks'[i].stage = "get"
                    /\ tasks'[i].slept =
                           IF ev'.p \in Numbers THEN 5 ELSE 1]_vars
    /\ [](\A i \in 1..Len(tasks) :
             (tasks[i].kind = "delayed" /\ tasks[i].stage # "sleep") =>
                 tasks[i].slept = IF tasks[i].p \in Numbers THEN 5 ELSE 1)
    /\ \A p \in Points :
           (ev.op = "patch_ok" /\ ev.p = p) ~> (ev.op = "delayed_done" /\ ev.p = p)

C7_Witness ==
    /\ ev.op = "delayed_done"
    /\ ev.p \in Numbers
    /\ nwrites = 1

C9_Orig ==
    (ev.op = "delayed_done" /\ ev.ok) => Read(ev.p) = RemoteValue(ev.p)

\* C9 amended: when the delayed refresh of a successful write of p has
\* finished with success, p shows what the device held for p when the GET of
\* that refresh was answered; this is what the device holds now unless a
\* later PATCH of p succeeded after the answer.
C9_ExposedAfterReconcile ==
    (ev.op = "delayed_done" /\ ev.ok /\ ev.fresh) => Read(ev.p) = RemoteValue(ev.p)

C9_Witness ==
    /\ ev.op = "delayed_done"
    /\ ev.ok
    /\ ev.fresh
    /\ nwrites = MaxWrites
    /\ npolls = MaxPolls
    /\ Read(ev.p) = RemoteValue(ev.p)
    /\ Read(ev.p) \in {BoolV(TRUE), NumV(16)}

\* C10: when a write whose PATCH failed with IXManagerError returns, the point
\* does not show a written value the device does not hold: it shows the
\* device's value when the rollback refresh succeeded and nothing (the entity
\* is unavailable) when it failed.
C10_RevertAfterFailure ==
    [][\A p \in Points :
          (ev'.op = "write_returned" /\ ev'.p = p) =>
              /\ wval[p] # RemoteValue(p)' => Read(p)' # wval[p]
              /\ Read(p)' = IF ev'.ok /\ p \in DOMAIN remote'
                            THEN RemoteValue(p)' ELSE NoneR]_vars

C10_Witness ==
    /\ ev.op = "write_returned"
    /\ ~ev.ok
    /\ nwrites = 1
    /\ npolls = 0
    /\ Logical(data, ev.p) # RemoteValue(ev.p)
    /\ Read(ev.p) = NoneR

\* The steps that end a run of _async_update_data in the running integration.
RefreshEnds == {"poll_done", "delayed_done", "write_returned"}

\* C11: a refresh (scheduled, delayed, rollback, or the first one of setup)
\* that ends in failure leaves data as it was, key by key; by induction so
\* does any number of failures in a row.
C11_FailureKeepsSnapshot ==
    [][(ev'.op \in RefreshEnds \cup {"first_refresh"} /\ ~ev'.ok) =>
          data' = data]_vars

C11_Witness ==
    /\ ev.op = "poll_done"
    /\ ~ev.ok
    /\ ~last_update_success
    /\ Truthy(data)
    /\ \E p \in Points : Logical(data, p) # RemoteValue(p)

\* C12: a refresh that succeeds sets last_update_success and replaces data,
\* in its one step, by the dict the GET returned: the keys and values of the
\* response and nothing else.
C12_SuccessReplacesSnapshot ==
    [][(ev'.op \in RefreshEnds /\ ev'.ok) =>
          /\ last_update_success'
          /\ \E i \in 1..Len(tasks) :
                /\ tasks[i].stage = "resp"
                /\ tasks[i].res = "data"
                /\ tasks' = ClearOpt(RemoveAt(tasks, i))
                /\ data' = Dict(tasks[i].resp)
                /\ DOMAIN data'.map = DOMAIN tasks[i].resp]_vars

C12_Witness ==
    /\ ev.op = "poll_done"
    /\ ev.ok
    /\ last_update_success
    /\ \E i \in 1..Len(tasks) :
          /\ tasks[i].kind = "delayed"
          /\ ~tasks[i].sup
          /\ Logical(data, tasks[i].p) # tasks[i].v

\* C13: whatever the GET of a refresh comes to other than a 200 answer,
\* _async_update_data ends in UpdateFailed and in nothing else; the failure
\* sets last_update_success to FALSE and leaves the integration running; the
\* host can start the next scheduled poll whatever last_update_success is, and
\* the GET of a refresh in flight can be answered with success.
C13_OnlyUpdateFailed ==
    /\ [](/\ \A o \in HttpOutcomes \ {"200"} :
                async_update_data(async_get_properties(o)) = "UpdateFailed"
          /\ \A i \in 1..Len(tasks) :
                tasks[i].stage = "resp" => tasks[i].res \in {"data", "UpdateFailed"})
    /\ [][(ev'.op \in RefreshEnds /\ ~ev'.ok) =>
             /\ ~last_update_success'
             /\ phase' = "running"]_vars
    /\ []((/\ phase = "running"
           /\ npolls < MaxPolls
           /\ \A i \in 1..Len(tasks) : tasks[i].kind # "poll") => ENABLED poll_start)
    /\ [](\A i \in 1..Len(tasks) :
             tasks[i].stage = "get" => ENABLED remote_answer(i, "200"))

C13_Witness ==
    /\ ev.op = "poll_start"
    /\ ~last_update_success
    /\ phase = "running"

\* C14: async_update_single_property returns the dict or None and raises
\* nothing, whatever the GET comes to; a call that fails changes neither data
\* nor last_update_success nor anything else of the integration; and while a
\* call is in flight or after it failed the host can start a scheduled poll
\* and the GET of a refresh can be answered.
C14_SingleFailureSwallowed ==
    /\ [](\A o \in HttpOutcomes :
             /\ SingleResult(async_get_properties(o)) \in {"data", "None"}
             /\ o # "200" => SingleResult(async_get_properties(o)) = "None")
    /\ [][(ev'.op = "single_done" /\ ~ev'.ok) =>
             /\ data' = data
             /\ last_update_success' = last_update_success
             /\ \E i \in Singles : tasks' = RemoveAt(tasks, i)
             /\ UNCHANGED <<phase, api_call_in_progress, pc, wval, opt,
                            outstanding, remote, nwrites, npolls>>]_vars
    /\ []((/\ phase = "running"
           /\ npolls < MaxPolls
           /\ \A i \in 1..Len(tasks) : tasks[i].kind # "poll") => ENABLED poll_start)
    /\ [](\A i \in 1..Len(tasks) :
             (tasks[i].stage = "get" /\ tasks[i].kind # "single") =>
                 ENABLED remote_answer(i, "200"))

C14_Witness ==
    /\ ev.op = "single_done"
    /\ ~ev.ok
    /\ Truthy(data)
    /\ last_update_success
    /\ \E i \in 1..Len(tasks) : tasks[i].kind = "poll" /\ tasks[i].stage = "get"

C17_Orig ==
    (ev.op = "write_accepted" /\ ev.p \in Numbers) =>
        wval[ev.p].n <= MaxCurrent(entry_cable)

\* C18 as stated: a number write is clamped against the cap of the cable the
\* entry holds at that moment, so also after an options update changed it.
C18_Orig ==
    [][\A p \in Numbers, v \in ClampInputs :
          (~api_call_in_progress[p] /\ async_set_native_value(p, v)) =>
              wval'[p] = NumV(IF v <= MaxCurrent(entry_cable)
                              THEN v ELSE MaxCurrent(entry_cable))]_vars

\* data with every entry taken out of its envelope.
Bare(d) == IF d.none THEN d ELSE Dict([k \in DOMAIN d.map |-> Unwrap(d.map[k])])

\* C19 as stated: an entity reads the same, and is available the same,
\* whether the entry of its key is V or {"value": V}, for V a boolean, a
\* number, a string or null.
C19_Orig ==
    ev.op = "read" =>
        /\ ev.v = PointValue(ev.kind, last_update_success, Bare(data), ev.p)
        /\ ev.ok = available(last_update_success, Bare(data), ev.p)

\* The kind of failure an HTTP outcome is.
ErrorKind(o) ==
    IF o = "401" THEN "auth"
    ELSE IF o = "404" THEN "not_found"
    ELSE IF o \in {"timeout", "client_error"} THEN "connection"
    ELSE "api"

ErrorOutcomes == {"401", "404", "500", "timeout", "client_error"}

\* C20 as stated: the exception of a failed client call tells the four kinds
\* of failure apart by its type: two outcomes of different kinds raise
\* different types.
C20_Orig ==
    (ev.op \in {"client_get", "client_set"} /\ ev.p \in ErrorOutcomes) =>
        \A o \in ErrorOutcomes :
            ErrorKind(o) # ErrorKind(ev.p) =>
                /\ async_get_properties(o) # ev.res
                /\ async_set_property(o) # ev.res

\* C21 as stated: async_set_property succeeds exactly for 200 and 204, and
\* async_get_properties fails exactly for the statuses outside 2xx.
C21_Orig ==
    (ev.op \in {"client_get", "client_set"} /\ ev.p \in HttpStatuses) =>
        /\ ev.op = "client_set" => (ev.res = "True" <=> ev.p \in {"200", "204"})
        /\ ev.op = "client_get" => (ev.res # "data" <=> ~Is2xx(ev.p))

\* C21: for every HTTP status, async_set_property returns True exactly for
\* 200 and 204, and async_get_properties returns the body exactly for 200:
\* it raises IXManagerError for every other status, 2xx or not.
C21_SuccessStatuses ==
    (ev.op \in {"client_get", "client_set"} /\ ev.p \in HttpStatuses) =>
        /\ ev.op = "client_set" => (ev.res = "True" <=> ev.p \in {"200", "204"})
        /\ ev.op = "client_set" => (ev.res # "True" => ev.res = "IXManagerError")
        /\ ev.op = "client_get" => (ev.res = "data" <=> ev.p = "200")
        /\ ev.op = "client_get" => (ev.res # "data" => ev.res = "IXManagerError")

\* The GET was answered 204, a 2xx status, and the call raised.
C21_Witness ==
    /\ ev.op = "client_get"
    /\ ev.p = "204"
    /\ Is2xx(ev.p)
    /\ ev.res = "IXManagerError"

\* GET requests sent and not yet settled.
GetCount == Cardinality({i \in 1..Len(tasks) : tasks[i].stage = "get"})

\* C22: one HTTP request per client call and no retry. A PATCH goes out
\* only with an accepted write and a PATCH that failed is not sent again; a
\* GET goes out only when a poll starts, a delayed refresh wakes up or the
\* except clause of a write refreshes, one at a time; a settled GET and a
\* finished refresh send nothing; validation is one exchange; and every
\* refresh asks for the eleven keys of properties_to_fetch in its one GET.
C22_OneRequestPerCall ==
    /\ Cardinality(properties_to_fetch) = 11
    /\ [](\A i \in 1..Len(tasks) :
            tasks[i].stage \in {"get", "resp"} => tasks[i].keys = properties_to_fetch)
    /\ [][/\ \A p \in Points :
              /\ outstanding'[p] > outstanding[p] =>
                    /\ ev'.op = "write_accepted" /\ ev'.p = p
                    /\ outstanding'[p] = outstanding[p] + 1
              /\ (ev'.op \in {"patch_ok", "patch_failed", "patch_raised"} /\ ev'.p = p) =>
                    /\ outstanding'[p] = outstanding[p] - 1
                    /\ pc'[p] # "patch"
          /\ GetCount' > GetCount =>
                /\ ev'.op \in {"poll_start", "delayed_request", "patch_failed"}
                /\ GetCount' = GetCount + 1
          /\ ev'.op = "answer" => GetCount' = GetCount - 1
          /\ ev'.op \in RefreshEnds =>
                /\ GetCount' = GetCount
                /\ Len(tasks') = Len(tasks) - 1
                /\ outstanding' = outstanding
          /\ ev'.op \in {"validate", "first_refresh"} =>
                /\ phase' # phase
                /\ GetCount' = 0
                /\ outstanding' = outstanding]_vars

\* A PATCH has failed: none is in flight for the point, its write waits for
\* the one refresh of the except clause, which asks for the eleven keys.
C22_Witness ==
    /\ ev.op = "patch_failed"
    /\ outstanding[ev.p] = 0
    /\ pc[ev.p] = "rollback"
    /\ Cardinality(TasksOf("rollback", ev.p)) = 1
    /\ \A i \in TasksOf("rollback", ev.p) :
          tasks[i].stage = "get" /\ Cardinality(tasks[i].keys) = 11

\* C23 as stated: a configuration attempt whose validation read is answered
\* 401 fails with the authentication error, shows "invalid_auth" and creates
\* or updates no entry.
C23_Orig ==
    (ev.op \in {"step_user", "reauth_confirm"} /\ ev.p = "401") =>
        /\ validate_input(ev.p, entry_cable) = "IXManagerAuthenticationError"
        /\ ev.res = "invalid_auth"
        /\ ~ev.ok

\* C30 as stated: a validation answered 401 during async_setup_entry ends the
\* setup with no coordinator and no entity and asks the host for
\* reauthentication (ConfigEntryAuthFailed); a timeout or transport failure
\* ends it with ConfigEntryNotReady.
C30_Orig ==
    [][/\ setup_validate("401") =>
             /\ phase' = "failed"
             /\ data' = NoData
             /\ ev'.res = "ConfigEntryAuthFailed"
       /\ \A o \in {"timeout", "client_error"} :
             setup_validate(o) =>
                 /\ phase' = "failed"
                 /\ ev'.res = "ConfigEntryNotReady"]_vars

\* C24: the entities exist (phase "running") only after the validation and
\* then the first refresh have both succeeded, with the fetched dict as
\* data; a setup whose validation or first refresh failed stays failed, and
\* outside "running" no entity can be read or written and none has a write
\* or a refresh in flight.
C24_PointsAfterFirstRefresh ==
    /\ [][/\ (phase' = "first_refresh" /\ phase # "first_refresh") =>
                (phase = "validate" /\ ev'.op = "validate" /\ ev'.ok)
          /\ (phase' = "running" /\ phase # "running") =>
                /\ phase = "first_refresh"
                /\ ev'.op = "first_refresh" /\ ev'.ok /\ ev'.res = "True"
                /\ last_update_success'
                /\ data' = Dict(Response(properties_to_fetch))
          /\ (ev'.op \in {"validate", "first_refresh"} /\ ~ev'.ok) => phase' = "failed"
          /\ phase = "failed" => phase' = "failed"]_vars
    /\ [](phase # "running" =>
            /\ data = NoData
            /\ tasks = <<>>
            /\ \A p \in Points : pc[p] = "idle" /\ outstanding[p] = 0
            /\ \A r \in Readers : ~ENABLED read_point(r[1], r[2])
            /\ \A p \in Switches, b \in BOOLEAN : ~ENABLED async_set_state(p, b)
            /\ \A p \in Numbers, v \in NumInputs : ~ENABLED async_set_native_value(p, v))

\* The validation succeeded and the first refresh failed: the setup has
\* failed and no entity exists.
C24_Witness ==
    /\ ev.op = "first_refresh"
    /\ ~ev.ok
    /\ phase = "failed"
    /\ data = NoData
    /\ \A r \in Readers : ~ENABLED read_point(r[1], r[2])

\* Outcomes of the PATCH that are client errors: the API errors and the
\* connection errors (timeout, transport failure).
ClientErrors == {"401", "404", "500", "timeout", "client_error"}

\* C25: a PATCH that fails with an API error or a connection error is caught
\* by the write: the except clause runs, not the propagation of the
\* exception; the refresh it awaits ends in data or UpdateFailed, which the
\* coordinator absorbs, whatever the GET came to; and the write then returns
\* with its flag cleared.
C25_WriteSwallowsClientErrors ==
    /\ [](\A p \in Points : pc[p] = "patch" =>
            \A o \in ClientErrors :
                /\ async_set_property(o) \in {"IXManagerError", "IXManagerConnectionError"}
                /\ ENABLED patch_failed(p, o)
                /\ ~ENABLED patch_raised(p, o))
    /\ [](\A p \in Points : pc[p] = "rollback" =>
            /\ Cardinality(TasksOf("rollback", p)) = 1
            /\ \A i \in TasksOf("rollback", p) :
                  /\ tasks[i].stage = "get" =>
                        \A o \in HttpOutcomes : ENABLED remote_answer(i, o)
                  /\ tasks[i].stage = "resp" =>
                        /\ tasks[i].res \in {"data", "UpdateFailed"}
                        /\ ENABLED rollback_done(i))
    /\ [][\A p \in Points :
            (ev'.op = "patch_failed" /\ ev'.p = p) => pc'[p] = "rollback"]_vars
    /\ [][\A p \in Points :
            (pc[p] = "rollback" /\ pc'[p] # "rollback") =>
                /\ ev'.op = "write_returned" /\ ev'.p = p
                /\ pc'[p] = "idle"
                /\ ~api_call_in_progress'[p]]_vars

\* The PATCH failed, the refresh of the except clause failed too, and the
\* write has returned: its coroutine is idle and its flag is clear.
C25_Witness ==
    /\ ev.op = "write_returned"
    /\ ~ev.ok
    /\ ~last_update_success
    /\ pc[ev.p] = "idle"
    /\ ~api_call_in_progress[ev.p]

\* C26: for a snapshot entry of the signal key that is an integer s, bare or
\* in an envelope, the signal strength sensor reports max(0, min(100, s))
\* when it is available, a value within 0..100, and None when it is not.
C26_SignalClamped ==
    (/\ ev.op = "read" /\ ev.kind = "sensor" /\ ev.p = PROPERTY_SIGNAL
     /\ ~data.none /\ PROPERTY_SIGNAL \in DOMAIN data.map
     /\ Unwrap(data.map[PROPERTY_SIGNAL]).t = "num") =>
        LET s == Unwrap(data.map[PROPERTY_SIGNAL]).n IN
        /\ ev.ok = last_update_success
        /\ ~ev.ok => ev.v = NoneR
        /\ ev.ok =>
              /\ ev.v = NumV(IF s < 0 THEN 0 ELSE IF s > 100 THEN 100 ELSE s)
              /\ ev.v.n \in 0..100
              /\ s = -5 => ev.v.n = 0
              /\ s = 150 => ev.v.n = 100

\* The snapshot holds {"value": -5} for the signal and the sensor reports 0.
C26_Witness ==
    /\ ev.op = "read" /\ ev.kind = "sensor" /\ ev.p = PROPERTY_SIGNAL
    /\ ~data.none /\ PROPERTY_SIGNAL \in DOMAIN data.map
    /\ data.map[PROPERTY_SIGNAL] = Envelope(NumV(-5))
    /\ ev.ok
    /\ ev.v = NumV(0)

\* The call of async_update_single_property that is about to return.
SingleReturning == {i \in Singles : tasks[i].stage = "resp"}

\* C27 as stated: whatever the snapshot is at the time of the call, after a
\* successful call the entry of the key is the fetched value, and the other
\* entries and last_update_success are as before.
C27_Orig ==
    [][\A i \in SingleReturning :
          (single_done(i) /\ ev'.ok /\ tasks[i].p \in DOMAIN tasks[i].resp) =>
                  /\ last_update_success' = last_update_success
                  /\ ~data'.none
                  /\ tasks[i].p \in DOMAIN data'.map
                  /\ data'.map[tasks[i].p] = tasks[i].resp[tasks[i].p]
                  /\ \A k \in properties_to_fetch \ {tasks[i].p} :
                        /\ ~data.none /\ k \in DOMAIN data.map =>
                              (k \in DOMAIN data'.map /\ data'.map[k] = data.map[k])
                        /\ k \in DOMAIN data'.map =>
                              (~data.none /\ k \in DOMAIN data.map)]_vars

\* C27: a successful call merges into a snapshot that is not empty: the
\* entry of the key becomes the fetched value, the other entries and
\* last_update_success stay; when the snapshot is None or empty, or the
\* response lacks the key, the snapshot is left as it is.
C27_MergeWhenData ==
    [][\A i \in SingleReturning :
          (single_done(i) /\ ev'.ok) =>
              /\ last_update_success' = last_update_success
              /\ IF Truthy(data) /\ tasks[i].p \in DOMAIN tasks[i].resp
                 THEN /\ ~data'.none
                      /\ DOMAIN data'.map = DOMAIN data.map \cup {tasks[i].p}
                      /\ data'.map[tasks[i].p] = tasks[i].resp[tasks[i].p]
                      /\ \A k \in DOMAIN data.map \ {tasks[i].p} :
                            data'.map[k] = data.map[k]
                 ELSE data' = data]_vars

\* A successful call has put the fetched value over the optimistic value of
\* a write that is still in flight, and another entry kept its value.
C27_Witness ==
    /\ ev.op = "single_done"
    /\ ev.ok
    /\ ev.p \in Points
    /\ Truthy(data)
    /\ pc[ev.p] = "patch"
    /\ Logical(data, ev.p) # wval[ev.p]
    /\ Logical(data, PROPERTY_SIGNAL) = RemoteValue(PROPERTY_SIGNAL)

\* The refresh of kind "poll" or "delayed" that is about to finish.
Finishing(kind) ==
    {i \in 1..Len(tasks) : tasks[i].kind = kind /\ tasks[i].stage = "resp"}

\* C28 as stated: when the delayed refresh of the one write made so far
\* finishes after the one poll has replaced the written value in data by
\* another while the device holds the written value, data holds the
\* device's value for the point afterwards.
C28_Orig ==
    [][\A p \in Points : \A i \in Finishing("delayed") :
          (/\ ev'.op = "delayed_done" /\ ev'.p = p /\ tasks[i].p = p
           /\ nwrites = 1 /\ npolls = 1 /\ Len(tasks) = 1
           /\ Truthy(data)
           /\ RemoteValue(p) = tasks[i].v
           /\ Logical(data, p) # tasks[i].v) =>
              Logical(data', p) = RemoteValue(p)']_vars

\* C28: a poll that finishes with success replaces the snapshot by its
\* response, whatever a write has put there since the response was produced;
\* the delayed refresh of the write then puts the device's value back when
\* it succeeds and no later PATCH of the point succeeded after its answer;
\* when it fails, data stays as the poll left it and last_update_success
\* becomes false.
C28_StalePollThenReconcile ==
    [][/\ (ev'.op = "poll_done" /\ ev'.ok) =>
             \A i \in Finishing("poll") : data' = Dict(tasks[i].resp)
       /\ \A p \in Points :
             (ev'.op = "delayed_done" /\ ev'.p = p) =>
                 /\ (ev'.ok /\ ev'.fresh) => Logical(data', p) = RemoteValue(p)'
                 /\ ~ev'.ok => (data' = data /\ ~last_update_success')]_vars

\* A poll answered before the PATCH has just replaced the optimistic value
\* by the value from before the write, the device holds the written value,
\* and the delayed refresh of the write has its answer, with the device's
\* value, ready to be applied.
C28_Witness ==
    /\ ev.op = "poll_done"
    /\ ev.ok
    /\ \E p \in Points : \E i \in Delayed(p) :
          /\ ~tasks[i].sup
          /\ tasks[i].stage = "resp"
          /\ tasks[i].res = "data"
          /\ p \in DOMAIN tasks[i].resp
          /\ Unwrap(tasks[i].resp[p]) = RemoteValue(p)
          /\ RemoteValue(p) = tasks[i].v
          /\ Logical(data, p) # tasks[i].v
          /\ Logical(data, p) # Missing

\* C29: a write request to a point whose own flag is clear is accepted and
\* its PATCH sent, whatever writes of other points and refreshes are in
\* flight; and the flag of a point changes only in steps of that point's own
\* write (accepted, PATCH returned, write returned).
C29_PointsIndependent ==
    /\ [](\A p \in Points :
            (phase = "running" /\ ~api_call_in_progress[p] /\ nwrites < MaxWrites) =>
                /\ p \in Switches => \A b \in BOOLEAN : ENABLED async_set_state(p, b)
                /\ p \in Numbers => \A v \in NumInputs : ENABLED async_set_native_value(p, v))
    /\ [][\A p \in Points :
            /\ (/\ ~api_call_in_progress[p]
                /\ \/ \E b \in BOOLEAN : async_set_state(p, b)
                   \/ \E v \in NumInputs : async_set_native_value(p, v)) =>
                  /\ ev'.op = "write_accepted" /\ ev'.p = p
                  /\ api_call_in_progress'[p]
                  /\ pc'[p] = "patch"
                  /\ outstanding'[p] = outstanding[p] + 1
                  /\ \A q \in Points \ {p} :
                        api_call_in_progress'[q] = api_call_in_progress[q]
            /\ api_call_in_progress'[p] # api_call_in_progress[p] =>
                  /\ ev'.p = p
                  /\ ev'.op \in {"write_accepted", "patch_ok", "patch_raised",
                                  "write_returned"}]_vars

\* A write has just been accepted while the PATCH of another point and the
\* GET of a poll are in flight.
C29_Witness ==
    /\ ev.op = "write_accepted"
    /\ pc[ev.p] = "patch"
    /\ \E q \in Points \ {ev.p} :
          api_call_in_progress[q] /\ pc[q] = "patch" /\ outstanding[q] = 1
    /\ \E i \in 1..Len(tasks) : tasks[i].kind = "poll" /\ tasks[i].stage = "get"

\* C31: reading an entity, its value or its availability, sends no request
\* and changes nothing: data, last_update_success, the flags, the writes and
\* the refreshes in flight and the device are after the read as before it.
C31_ReadChangesNothing ==
    [][ev'.op = "read" =>
          /\ data' = data
          /\ last_update_success' = last_update_success
          /\ api_call_in_progress' = api_call_in_progress
          /\ outstanding' = outstanding
          /\ tasks' = tasks
          /\ GetCount' = GetCount
          /\ remote' = remote
          /\ UNCHANGED <<phase, pc, wval, opt, cable_type, entry_cable>>]_vars

\* An available switch has been read while its own PATCH is in flight.
C31_Witness ==
    /\ ev.op = "read"
    /\ ev.kind = "switch"
    /\ ev.ok
    /\ pc[ev.p] = "patch"
    /\ api_call_in_progress[ev.p]
    /\ outstanding[ev.p] = 1
    /\ ev.v = wval[ev.p]

\* C32 as stated: every lookup of the cable spec succeeds for every tag the
\* entry holds, with the 16 A spec for a tag CABLE_TYPES does not know: the
\* number write clamps against it, and the validation of a configuration
\* attempt whose connection test passed returns its info.
C32_Orig ==
    /\ (ev.op = "write_accepted" /\ ev.p \in Numbers) =>
          wval[ev.p].n <= (IF cable_type \in DOMAIN CABLE_TYPES
                           THEN CABLE_TYPES[cable_type]
                           ELSE CABLE_TYPES[DEFAULT_CABLE_TYPE])
    /\ (ev.op = "reauth_confirm" /\ async_validate_connection(ev.p) = "True") =>
          /\ validate_input(ev.p, entry_cable) = "info"
          /\ ev.res = "reauth_successful"

\* The sensors that convert their value to a number.
NumericSensorKeys ==
    properties_to_fetch \ {PROPERTY_CHARGING_ENABLE, PROPERTY_SINGLE_PHASE,
                            PROPERTY_CHARGING_STATUS}

\* The read that has just been made was of a numeric sensor or of the number
\* entity, and data holds for its key a string that is not a number.
CoercionFails ==
    /\ ev.op = "read"
    /\ \/ ev.kind = "number"
       \/ ev.kind = "sensor" /\ ev.p \in NumericSensorKeys
    /\ ~data.none
    /\ ev.p \in DOMAIN data.map
    /\ Unwrap(data.map[ev.p]).t = "str"
    /\ ~ParsesAsFloat(Unwrap(data.map[ev.p]).s)

IntegerSensorKeys ==
    {PROPERTY_MAXIMUM_CURRENT, PROPERTY_TARGET_CURRENT,
     PROPERTY_CURRENT_CHARGING_POWER, PROPERTY_TOTAL_ENERGY}
PhaseCurrentKeys ==
    {PROPERTY_CHARGING_CURRENT, PROPERTY_CHARGING_CURRENT_L2,
     PROPERTY_CHARGING_CURRENT_L3}

\* A number of the model in thousandths.
Thousandths(v) == IF v.t = "dec" THEN v.n ELSE v.n * 1000

\* The read that has just been made was of an available sensor of one of
\* the keys ks whose entry in data is a JSON number.
NumericRead(ks) ==
    /\ ev.op = "read"
    /\ ev.kind = "sensor"
    /\ ev.p \in ks
    /\ ev.ok
    /\ Unwrap(data.map[ev.p]).t \in {"num", "dec"}

\* Statement of C34 as written: an integer-valued sensor reports the nearest
\* integer of every numeric entry.
C34_Orig ==
    NumericRead(IntegerSensorKeys) =>
        ev.v = NumV(Nearest(Thousandths(Unwrap(data.map[ev.p]))))

\* C34: an integer-valued sensor (maximumCurrent, targetCurrent,
\* currentChargingPower, totalEnergy) reports the numeric entry with its
\* fraction cut off, towards zero, and a per-phase current sensor reports a
\* multiple of 0.01 that lies within 0.005 of the entry.
C34_IntegerTruncatedPhaseRounded ==
    /\ NumericRead(IntegerSensorKeys) =>
           ev.v = NumV(Trunc(Thousandths(Unwrap(data.map[ev.p]))))
    /\ NumericRead(PhaseCurrentKeys) =>
           LET m == Thousandths(Unwrap(data.map[ev.p]))
               r == Thousandths(ev.v)
           IN /\ ev.v.t \in {"num", "dec"}
              /\ r % 10 = 0
              /\ r - m <= 5
              /\ m - r <= 5

\* The maximum-current sensor has been read over the entry 15.7 and
\* reports 15.
C34_Witness ==
    /\ NumericRead(IntegerSensorKeys)
    /\ ev.p = PROPERTY_MAXIMUM_CURRENT
    /\ data.map[ev.p] = DecV(15700)
    /\ ev.v = NumV(15)

\* A per-phase current sensor has been read over the entry 15.678 and
\* reports 15.68.
C34_PhaseWitness ==
    /\ NumericRead(PhaseCurrentKeys)
    /\ Unwrap(data.map[ev.p]) = DecV(15678)
    /\ ev.v = DecV(15680)

\* ------------------------------------------------------------------- C35
\* A write request of the point p arrives.
WriteRequest(p) ==
    \/ \E state \in BOOLEAN : async_set_state(p, state)
    \/ \E value \in NumInputs : async_set_native_value(p, value)

\* C35: the flag of a point is cleared in the step in which the PATCH returns
\* successfully, which leaves the delayed refresh of the write still asleep;
\* a write request of the point that arrives while such a refresh sleeps and
\* the flag is clear is accepted and sent, and the sleeping refresh stays.
C35_FlagClearedBeforeReconcile ==
    [][\A p \in Points :
          /\ (ev'.op = "patch_ok" /\ ev'.p = p) =>
                /\ ~api_call_in_progress'[p]
                /\ Len(tasks') = Len(tasks) + 1
                /\ tasks'[Len(tasks')].kind = "delayed"
                /\ tasks'[Len(tasks')].p = p
                /\ tasks'[Len(tasks')].stage = "sleep"
          /\ \A i \in Delayed(p) :
                (/\ tasks[i].stage = "sleep"
                 /\ ~api_call_in_progress[p]
                 /\ WriteRequest(p)) =>
                    /\ ev'.op = "write_accepted"
                    /\ ev'.p = p
                    /\ outstanding'[p] = 1
                    /\ pc'[p] = "patch"
                    /\ i \in 1..Len(tasks')
                    /\ tasks'[i].kind = "delayed"
                    /\ tasks'[i].p = p
                    /\ tasks'[i].stage = "sleep"]_vars

\* The PATCH of a second write of a point has returned while the delayed
\* refresh of the first still sleeps: two refreshes are pending for the point.
C35_Witness ==
    /\ ev.op = "patch_ok"
    /\ Cardinality(Delayed(ev.p)) = 2
    /\ \A i \in Delayed(ev.p) : tasks[i].stage = "sleep"
    /\ ~api_call_in_progress[ev.p]

\* ------------------------------------------------------------------- C36
\* C36: from the failure of the PATCH until the refresh awaited in the
\* except clause has returned, the flag of the point is set and that refresh
\* is under way; the flag is cleared by no other step than the return of the
\* write; and a write request of the point that arrives meanwhile is dropped:
\* no PATCH, no change of data, no refresh.
C36_FlagHeldDuringRollback ==
    /\ [](\A p \in Points : pc[p] = "rollback" =>
              /\ api_call_in_progress[p]
              /\ TasksOf("rollback", p) # {})
    /\ [][\A p \in Points : pc[p] = "rollback" =>
              /\ ~api_call_in_progress'[p] =>
                    /\ ev'.op = "write_returned"
                    /\ ev'.p = p
                    /\ TasksOf("rollback", p)' = {}
              /\ WriteRequest(p) =>
                    /\ ev'.op = "write_dropped"
                    /\ ev'.p = p
                    /\ UNCHANGED <<data, last_update_success, api_call_in_progress,
                                   pc, outstanding, tasks, remote>>]_vars

\* A write request has been dropped while the refresh of the except clause
\* of an earlier write of the same point had its answer but had not returned.
C36_Witness ==
    /\ ev.op = "write_dropped"
    /\ api_call_in_progress[ev.p]
    /\ outstanding[ev.p] = 0
    /\ \E i \in TasksOf("rollback", ev.p) : tasks[i].stage = "resp"

\* ------------------------------------------------------------------- C37
\* Statement of C37 as written: when the delayed refresh of the one write
\* made so far fails, data holds the written value afterwards.
C37_Orig ==
    [][\A p \in Points : \A i \in Finishing("delayed") :
          (/\ ev'.op = "delayed_done" /\ ev'.p = p /\ tasks[i].p = p
           /\ ~ev'.ok
           /\ nwrites = 1
           /\ Truthy(data)) =>
              Logical(data', p) = tasks[i].v]_vars

\* C37: when a delayed refresh fails, last_update_success becomes false and
\* data stays as it was, so every entity is unavailable; data still holds the
\* written value when no refresh has finished and no other write of the point
\* was accepted since the write stored it; and last_update_success becomes
\* true again only when a later refresh ends with success.
C37_FailedReconcile ==
    /\ [][\A p \in Points :
              (ev'.op = "delayed_done" /\ ev'.p = p /\ ~ev'.ok) =>
                  /\ ~last_update_success'
                  /\ data' = data
                  /\ \A r \in Readers : ~available(last_update_success', data', r[2])
                  /\ \A i \in Finishing("delayed") :
                        (/\ tasks[i].p = p
                         /\ tasks[i].opt
                         /\ ~tasks[i].sup
                         /\ Cardinality(Finishing("delayed")) = 1) =>
                            Logical(data', p) = tasks[i].v]_vars
    /\ [][(~last_update_success /\ last_update_success') =>
              (ev'.op \in RefreshEnds /\ ev'.ok)]_vars

\* The delayed refresh of the only write has failed with no poll made: the
\* device and data hold the written value, which differs from the value
\* before the write, and no entity is available.
C37_Witness ==
    /\ ev.op = "delayed_done"
    /\ ~ev.ok
    /\ nwrites = 1
    /\ npolls = 0
    /\ ~last_update_success
    /\ Logical(data, ev.p) \in {BoolV(TRUE), NumV(16)}
    /\ Logical(data, ev.p) = RemoteValue(ev.p)
    /\ \A r \in Readers : ~available(last_update_success, data, r[2])

\* ------------------------------------------------------------------- C38
\* C38: the step that accepts a write of point p changes in data at most the
\* entry of p: every other entry stays, no key but p is added, and
\* last_update_success, the flags of the other points and the device are
\* untouched.
C38_OptimisticTouchesOneKey ==
    [][\A p \in Points :
          (ev'.op = "write_accepted" /\ ev'.p = p) =>
              /\ data'.none = data.none
              /\ DOMAIN data'.map \subseteq DOMAIN data.map \cup {p}
              /\ \A k \in DOMAIN data.map \ {p} :
                    /\ k \in DOMAIN data'.map
                    /\ data'.map[k] = data.map[k]
              /\ last_update_success' = last_update_success
              /\ \A q \in Points \ {p} :
                    api_call_in_progress'[q] = api_call_in_progress[q]
              /\ remote' = remote]_vars

\* A write has just stored its value in data while the write of another
\* point holds that point's flag, and data still holds the other entries of
\* the last response, the signal strength among them.
C38_Witness ==
    /\ ev.op = "write_accepted"
    /\ Logical(data, ev.p) = wval[ev.p]
    /\ Logical(data, ev.p) # RemoteValue(ev.p)
    /\ Logical(data, PROPERTY_SIGNAL) = NumV(70)
    /\ Cardinality(DOMAIN data.map) = 4
    /\ \E q \in Points \ {ev.p} : api_call_in_progress[q]

====
